---- MODULE Spec2Model ----
(***************************************************************************)
(* VaporPlayer: the playback-sequencing state machine of the two player    *)
(* components, src/src/App.jsx ("App") and                                 *)
(* src/modern_react_music_player_drag_drop_local_files.jsx ("Standalone"). *)
(*                                                                         *)
(* React state is modelled by one variable per useState cell.  An action   *)
(* is one event handler together with the render it causes and the         *)
(* effects that run after that render (the effect that re-registers the    *)
(* audio listeners and the effect that calls audio.play()/audio.pause()).  *)
(* The catalog is a sequence of track ids; an index is 0-based as in the   *)
(* source, so the track at index i is tracks[i + 1].                       *)
(***************************************************************************)
EXTENDS Integers, Sequences, FiniteSets, TLC

VARIABLES
    comp,          \* which component is mounted: "App" or "Standalone"
    tracks,        \* useState tracks: sequence of track ids
    index,         \* useState index
    playing,       \* useState playing
    shuffle,       \* useState shuffle
    repeatMode,    \* useState repeatMode: "off" | "one" | "all"
    endShuffle,    \* shuffle as captured by the registered 'ended' listener
    audioPlaying,  \* the <audio> element is playing (not paused, not ended)
    audioCmd,      \* what the play effect of the last render told the element
    nextId,        \* next fresh local track id (crypto.randomUUID)
    pending,       \* addFiles calls in flight: set of batches of new ids
    fetchPending,  \* App: the /api/library fetch has not settled yet
    ev,            \* history: the last event handled
    pre,           \* history: the React state the last event started from
    ret,           \* history: the value nextIndex()/prevIndex() last returned
    progress,      \* useState progress (position shown), in time units
    duration,      \* useState duration, in time units; 0 = not known
    audioTime,     \* audio.currentTime, in time units
    volume,        \* useState volume, in hundredths
    muted,         \* useState muted
    gain,          \* audio.volume, in hundredths
    meta,          \* the meta and quality fields of the track records, by id
    library,       \* App: ids of the tracks in the library tree
    newLib,        \* ids of tracks in flight that their call put in newLib
    srvIndex,      \* server.mjs: the in-memory index, a sequence of records
    srvResp,       \* server.mjs: the response to the last request
    srvDisk,       \* server.mjs: the name of each file under MUSIC_DIR
    msClosure      \* standalone: what the media-session handlers captured

timeVars == <<progress, duration, audioTime>>
volVars == <<volume, muted, gain>>
metaVars == <<meta, library, newLib>>
srvVars == <<srvIndex, srvResp, srvDisk>>

vars == <<comp, tracks, index, playing, shuffle, repeatMode, endShuffle,
          msClosure,
          audioPlaying, audioCmd, nextId, pending, fetchPending, ev, pre, ret,
          timeVars, volVars, metaVars, srvVars>>

\* ---------------------------------------------------------------- bounds
MaxId == 2        \* local track ids ever created by addFiles
MaxBatch == 2     \* audio files in one addFiles call
MaxPending == 1   \* addFiles calls in flight at once
MaxLib == 1       \* tracks the server library returns
MaxCount == 4     \* catalog sizes the sequencer functions are applied to

\* ------------------------------------------------------------- constants
NoTrack == 0      \* tracks[index] is undefined
NoRet == -9       \* nextIndex()/prevIndex() was not called
ServerBase == 100 \* ids of server tracks are ServerBase + 1, ServerBase + 2, ...

InitialVolume == 90  \* useState(0.9), in hundredths
NoResponse == [status |-> 0, body |-> "none", path |-> 0]

Components == {"App", "Standalone"}
RepeatModes == {"off", "one", "all"}

Max(a, b) == IF a > b THEN a ELSE b
Min(a, b) == IF a < b THEN a ELSE b

\* const current = tracks[index]
Cur(t, i) == IF 0 <= i /\ i < Len(t) THEN t[i + 1] ELSE NoTrack

\* prev.findIndex((t) => t.id === id): 0-based, -1 when absent
FindIndex(t, id) ==
    IF \E k \in 1..Len(t) : t[k] = id
    THEN (CHOOSE k \in 1..Len(t) : t[k] = id /\ \A j \in 1..(k - 1) : t[j] # id) - 1
    ELSE -1

Range(q) == {q[k] : k \in 1..Len(q)}

\* prev.filter((t) => t.id !== id)
\* Mutant of the filter: the entry at the head goes, whatever its id.
WithoutHead(t, id) == IF Len(t) > 0 THEN Tail(t) ELSE t

Without(t, id) == SelectSeq(t, LAMBDA x : x # id)

\* ------------------------------------------------------------- sequencer
\* Mutant of the draw: the loop accepts its first draw, current included.
ShuffleDrawAny(current, count) == 0..(count - 1)

\* do { r = Math.floor(Math.random() * count) } while (r === current):
\* the values the loop can return.
ShuffleDraw(current, count) == {r \in 0..(count - 1) : r # current}

\* Mutants of the sequencer: a nextIndex that wraps without asking
\* repeatMode; a prevIndex that never wraps.
NextIndexAlwaysWraps(current, count, sh, rm) ==
    IF rm = "one" THEN {current}
    ELSE IF sh /\ count > 1 THEN {r \in 0..(count - 1) : r # current}
    ELSE IF current + 1 < count THEN {current + 1}
    ELSE {0}

PrevIndexNeverWraps(current, count, sh, rm) ==
    IF sh /\ count > 1 THEN {r \in 0..(count - 1) : r # current}
    ELSE IF current > 0 THEN {current - 1}
    ELSE {0}

\* nextIndex(): the set of values it can return (one value unless it draws).
NextIndex(current, count, sh, rm) ==
    IF rm = "one" THEN {current}
    ELSE IF sh /\ count > 1 THEN ShuffleDraw(current, count)
    ELSE IF current + 1 < count THEN {current + 1}
    ELSE IF rm = "all" THEN {0} ELSE {current}

\* prevIndex(): the set of values it can return.
PrevIndex(current, count, sh, rm) ==
    IF sh /\ count > 1 THEN ShuffleDraw(current, count)
    ELSE IF current > 0 THEN {current - 1}
    ELSE IF rm = "all" THEN {count - 1} ELSE {0}

\* setRepeatMode((m) => m === "off" ? "one" : m === "one" ? "all" : "off")
CycleRepeatMode(m) == IF m = "off" THEN "one" ELSE IF m = "one" THEN "all" ELSE "off"

\* ---------------------------------------------------------------- effects
\* useEffect(..., [index, repeatMode, tracks.length]): the 'ended' listener is
\* registered again, capturing the render's shuffle, only when a dependency
\* changed; otherwise the listener of the earlier render stays registered.
ListenerShuffle(i1, rm1, n1, i2, rm2, n2, s2, captured) ==
    IF i2 # i1 \/ rm2 # rm1 \/ n2 # n1 THEN s2 ELSE captured

\* useEffect(..., [current, playing]): runs when current or playing changed;
\* if (current) { if (playing) audio.play().catch(() => {}); else audio.pause(); }
PlayEffect(cur1, p1, cur2, p2) ==
    IF (cur2 # cur1 \/ p2 # p1) /\ cur2 # NoTrack
    THEN (IF p2 THEN "play" ELSE "pause")
    ELSE "none"

\* The <audio> element after a render.  A changed src makes the element load
\* the new source, which stops it; in the standalone component the src
\* attribute is removed when there is no current track, which loads nothing.
\* play() starts the element unless its promise rejects (ok = FALSE).
AudioAfter(c, aud, cur1, cur2, cmd, ok) ==
    IF cmd = "play" THEN ok
    ELSE IF cmd = "pause" THEN FALSE
    ELSE IF cur2 # cur1 /\ (cur2 # NoTrack \/ c = "App") THEN FALSE
    ELSE aud

\* audio.play() resolves or rejects (autoplay policy, a source that does not
\* load); nothing else has an outcome to choose.
PlayOutcomes(cmd) == IF cmd = "play" THEN BOOLEAN ELSE {FALSE}

NoDisplay == [title |-> "", artist |-> "", art |-> FALSE]

\* Mutant of the now-playing panel: it shows the track added last.
DisplayOfLastAdded(t, i, m) ==
    IF Cur(t, i) = NoTrack THEN NoDisplay
    ELSE IF t[Len(t)] \in DOMAIN m
    THEN [title |-> m[t[Len(t)]].meta.title,
          artist |-> IF m[t[Len(t)]].meta.artist = "" THEN "Unknown Artist"
                     ELSE m[t[Len(t)]].meta.artist,
          art |-> m[t[Len(t)]].meta.picture]
    ELSE [title |-> "name", artist |-> "Unknown Artist", art |-> FALSE]

\* Now-playing panel: current?.meta?.title || current?.name,
\* current?.meta?.artist || "Unknown Artist", the picture of current's tags.
\* Tracks indexed by the server carry no meta.
Display(t, i, m) ==
    IF Cur(t, i) = NoTrack THEN NoDisplay
    ELSE IF Cur(t, i) \in DOMAIN m
    THEN [title |-> m[Cur(t, i)].meta.title,
          artist |-> IF m[Cur(t, i)].meta.artist = "" THEN "Unknown Artist"
                     ELSE m[Cur(t, i)].meta.artist,
          art |-> m[Cur(t, i)].meta.picture]
    ELSE [title |-> "name", artist |-> "Unknown Artist", art |-> FALSE]

\* The history record of an event with argument a.
Before(a) ==
    [tracks |-> tracks, index |-> index, playing |-> playing,
     shuffle |-> shuffle, repeatMode |-> repeatMode,
     cur |-> Cur(tracks, index), arg |-> a,
     progress |-> progress, duration |-> duration, library |-> library,
     volume |-> volume, muted |-> muted, gain |-> gain,
     shown |-> Display(tracks, index, meta), srvIndex |-> srvIndex]

\* The media-session handlers of a browser without the Media Session API,
\* and of App.jsx, which registers none.
NoSession ==
    [on |-> FALSE, index |-> 0, count |-> 0, shuffle |-> FALSE,
     repeatMode |-> "off"]

\* Mutant of the media-session effect: the handlers are registered anew after
\* every render.
MediaHandlersFresh(c, ms, cur1, d1, cur2, d2, i2, n2, s2, rm2) ==
    IF c = "Standalone" /\ ms.on
    THEN [on |-> TRUE, index |-> i2, count |-> n2, shuffle |-> s2,
          repeatMode |-> rm2]
    ELSE ms

\* Standalone, useEffect[current, duration]: if ("mediaSession" in navigator)
\* the handlers are registered anew, closing over nextIndex/prevIndex of
\* this render, when current or duration changed.
MediaHandlers(c, ms, cur1, d1, cur2, d2, i2, n2, s2, rm2) ==
    IF c = "Standalone" /\ ms.on /\ (cur2 # cur1 \/ d2 # d1)
    THEN [on |-> TRUE, index |-> i2, count |-> n2, shuffle |-> s2,
          repeatMode |-> rm2]
    ELSE ms

\* One render: the handler e (argument a, sequencer result rv) started from
\* playing = p1 with the element in state a1 and set the state to
\* (t2, i2, p2, s2, rm2) and the duration to d2; the effects of the render
\* follow.
RenderD(e, a, rv, p1, a1, t2, i2, p2, s2, rm2, d2) ==
    LET cur1 == Cur(tracks, index)
        cur2 == Cur(t2, i2)
        cmd == PlayEffect(cur1, p1, cur2, p2)
    IN  /\ tracks' = t2
        /\ index' = i2
        /\ playing' = p2
        /\ shuffle' = s2
        /\ repeatMode' = rm2
        /\ endShuffle' = ListenerShuffle(index, repeatMode, Len(tracks),
                                         i2, rm2, Len(t2), s2, endShuffle)
        /\ msClosure' = MediaHandlers(comp, msClosure, cur1, duration, cur2, d2,
                                      i2, Len(t2), s2, rm2)
        /\ audioCmd' = cmd
        /\ \E ok \in PlayOutcomes(cmd) :
             audioPlaying' = AudioAfter(comp, a1, cur1, cur2, cmd, ok)
        /\ ev' = e
        /\ pre' = Before(a)
        /\ ret' = rv
        /\ UNCHANGED comp

\* A render that leaves the duration as it is.
Render(e, a, rv, p1, a1, t2, i2, p2, s2, rm2) ==
    RenderD(e, a, rv, p1, a1, t2, i2, p2, s2, rm2, duration)

\* ------------------------------------------------------------------ state
Init ==
    /\ comp \in Components
    /\ tracks = <<>>
    /\ index = 0
    /\ playing = FALSE
    /\ shuffle = FALSE
    /\ repeatMode = "off"
    /\ endShuffle = FALSE
    /\ msClosure = NoSession
    /\ audioPlaying = FALSE
    /\ audioCmd = "none"
    /\ nextId = 1
    /\ pending = {}
    /\ fetchPending = (comp = "App")
    /\ ev = "init"
    /\ ret = NoRet
    /\ progress = 0
    /\ duration = 0
    /\ audioTime = 0
    /\ volume = InitialVolume
    /\ muted = FALSE
    /\ gain = InitialVolume
    /\ meta = <<>>
    /\ library = {}
    /\ newLib = {}
    /\ srvIndex = <<>>
    /\ srvResp = NoResponse
    /\ srvDisk = <<>>
    /\ pre = Before(0)

\* ---------------------------------------------------------------- catalog
\* App: fetch("/api/library").then((res) => res.json()).then(setTracks)
\* .then((res) => res.json()).then(setTracks): the catalog becomes the
\* list t the server answered with.
SetFetchedTracks(t) ==
    /\ comp = "App" /\ fetchPending
    /\ Render("fetch", Len(t), NoRet, playing, audioPlaying,
              t, index, playing, shuffle, repeatMode)
    /\ fetchPending' = FALSE
    /\ UNCHANGED <<nextId, pending, timeVars, volVars, metaVars, srvVars>>

LibraryFetched ==
    \E n \in 0..MaxLib : SetFetchedTracks([k \in 1..n |-> ServerBase + k])

\* App: .catch((err) => console.error("Library fetch failed", err))
LibraryFetchFailed ==
    /\ comp = "App" /\ fetchPending
    /\ fetchPending' = FALSE
    /\ ev' = "fetchFailed"
    /\ pre' = Before(0)
    /\ ret' = NoRet
    /\ UNCHANGED <<comp, tracks, index, playing, shuffle, repeatMode,
                   endShuffle, msClosure, audioPlaying, audioCmd, nextId,
                   pending,
                   timeVars, volVars, metaVars, srvVars>>

\* readTags(file): what the promise resolves to.  "tags": onSuccess with
\* title, artist and picture; "notitle": onSuccess with empty tags; "error":
\* onError; "throws": jsmediatags.read throws and the catch resolves.  A
\* title "name" is file.name.
TagOutcomes == {"tags", "notitle", "error", "throws"}

\* Mutant of readTags: a failed read leaves the title empty.
ReadTagsNoFallback(tag) ==
    IF tag = "tags" THEN [title |-> "tag", artist |-> "tag", picture |-> TRUE]
    ELSE [title |-> "", artist |-> "", picture |-> FALSE]

ReadTags(tag) ==
    IF tag = "tags"
    THEN [title |-> "tag", artist |-> "tag", picture |-> TRUE]
    ELSE IF tag = "notitle"
    THEN [title |-> "name", artist |-> "Unknown Artist", picture |-> FALSE]
    ELSE [title |-> "name", artist |-> "", picture |-> FALSE]

\* App.jsx: try { await parseBlob(file) ... } catch { } and the Unknown default.
ParseOutcomes == {"ok", "throws"}

Quality(c, parse) ==
    IF c # "App" THEN "none"
    ELSE IF parse = "ok" THEN "label" ELSE "Unknown"

\* The meta and quality fields of the track record addFiles builds.
TrackMeta(c, tag, parse) ==
    [meta |-> ReadTags(tag), quality |-> Quality(c, parse), tag |-> tag]

\* addFiles(files), up to its last await: k audio files get fresh ids and are
\* collected in toAdd.  (A call without audio files changes nothing.)
\* tags[j] is what readTags meets for file j, parses[j] what parseBlob does,
\* rel whether the files carry a webkitRelativePath (a picked folder).
StartAdd(k, tags, parses, rel) ==
    LET ids == (nextId)..(nextId + k - 1)
    IN  /\ Cardinality(pending) < MaxPending
        /\ nextId + k - 1 <= MaxId
        /\ pending' = pending \cup {[j \in 1..k |-> nextId + j - 1]}
        /\ nextId' = nextId + k
        /\ meta' = [id \in DOMAIN meta \cup ids |->
                      IF id \in ids
                      THEN TrackMeta(comp, tags[id - nextId + 1],
                                     parses[id - nextId + 1])
                      ELSE meta[id]]
        /\ newLib' = IF rel /\ comp = "App" THEN newLib \cup ids ELSE newLib
        /\ ev' = "addStart"
        /\ pre' = Before(k)
        /\ ret' = NoRet
        /\ UNCHANGED <<comp, tracks, index, playing, shuffle, repeatMode,
                       endShuffle, msClosure, audioPlaying, audioCmd,
                       fetchPending,
                       library, timeVars, volVars, srvVars>>

\* Dropped files whose tags and format are read without failure.
AddFilesStart ==
    \E k \in 1..MaxBatch :
        StartAdd(k, [j \in 1..k |-> "tags"], [j \in 1..k |-> "ok"], FALSE)

\* addFiles(files), after the loop: setTracks((prev) => [...prev, ...toAdd])
AddFilesDone ==
    /\ \E b \in pending :
         /\ Render("addDone", Len(b), NoRet, playing, audioPlaying,
                   tracks \o b, index, playing, shuffle, repeatMode)
         /\ pending' = pending \ {b}
         /\ library' = library \cup (Range(b) \cap newLib)
         /\ newLib' = newLib \ Range(b)
    /\ UNCHANGED <<nextId, fetchPending, meta, timeVars, volVars, srvVars>>

\* removeTrack(id) of App.jsx: setTracks((prev) => prev.filter(...)) only.
RemoveTrackApp(t, i, p, id) ==
    [tracks |-> Without(t, id), index |-> i, playing |-> p]

\* removeTrack(id) of the standalone component.
RemoveTrackStandalone(t, i, p, id) ==
    LET idx == FindIndex(t, id)
        next == Without(t, id)
    IN  IF idx = i
        THEN [tracks |-> next,
              index |-> Max(0, Min(idx, Len(next) - 1)),
              playing |-> FALSE]
        ELSE IF idx < i
        THEN [tracks |-> next, index |-> Max(0, i - 1), playing |-> p]
        ELSE [tracks |-> next, index |-> i, playing |-> p]

\* The remove button of playlist entry id.
RemoveTrack ==
    /\ \E k \in 1..Len(tracks) :
         LET id == tracks[k]
             r == IF comp = "App"
                  THEN RemoveTrackApp(tracks, index, playing, id)
                  ELSE RemoveTrackStandalone(tracks, index, playing, id)
         IN  Render("remove", id, NoRet, playing, audioPlaying,
                    r.tracks, r.index, r.playing, shuffle, repeatMode)
    /\ UNCHANGED <<nextId, pending, fetchPending,
                   timeVars, volVars, metaVars, srvVars>>

\* clearAll(): setTracks([]); [App: setLibrary({});] setIndex(0);
\* setPlaying(false); setProgress(0); setDuration(0).  In App.jsx the element
\* is given src = "" when a track was current, which resets its position.
\* Mutant of clearAll: the position and the duration are left as they were.
ClearAllKeepsTime ==
    /\ Render("clear", 0, NoRet, playing, audioPlaying,
                <<>>, 0, FALSE, shuffle, repeatMode)
    /\ library' = {}
    /\ UNCHANGED <<nextId, pending, fetchPending, meta, newLib,
                   timeVars, volVars, srvVars>>

ClearAll ==
    /\ RenderD("clear", 0, NoRet, playing, audioPlaying,
               <<>>, 0, FALSE, shuffle, repeatMode, 0)
    /\ library' = {}
    /\ progress' = 0
    /\ duration' = 0
    /\ audioTime' = IF comp = "App" /\ Cur(tracks, index) # NoTrack
                    THEN 0 ELSE audioTime
    /\ UNCHANGED <<nextId, pending, fetchPending, meta, newLib,
                   volVars, srvVars>>

\* -------------------------------------------------------------- transport
\* App.jsx renders the transport controls only while current is defined
\* ({current ? ... : "No track selected"}); the standalone component always
\* renders them and also listens to the keyboard.
ControlsShown == comp = "Standalone" \/ Cur(tracks, index) # NoTrack

\* Playlist entry i: onClick={() => { setIndex(i); setPlaying(true); }}
SelectTrack ==
    /\ \E i \in 0..(Len(tracks) - 1) :
         Render("select", i, NoRet, playing, audioPlaying,
                tracks, i, TRUE, shuffle, repeatMode)
    /\ UNCHANGED <<nextId, pending, fetchPending,
                   timeVars, volVars, metaVars, srvVars>>

\* Skip-forward button, key N: setIndex(nextIndex())
NextTrack ==
    /\ ControlsShown
    /\ \E r \in NextIndex(index, Len(tracks), shuffle, repeatMode) :
         Render("next", 0, r, playing, audioPlaying,
                tracks, r, playing, shuffle, repeatMode)
    /\ UNCHANGED <<nextId, pending, fetchPending,
                   timeVars, volVars, metaVars, srvVars>>

\* Skip-back button, key P: setIndex(prevIndex())
PrevTrack ==
    /\ ControlsShown
    /\ \E r \in PrevIndex(index, Len(tracks), shuffle, repeatMode) :
         Render("prev", 0, r, playing, audioPlaying,
                tracks, r, playing, shuffle, repeatMode)
    /\ UNCHANGED <<nextId, pending, fetchPending,
                   timeVars, volVars, metaVars, srvVars>>

\* setPlaying((p) => !p)
TogglePlaying(p) == ~p

\* Play/pause button, Space key.
TogglePlay ==
    /\ ControlsShown
    /\ Render("toggle", 0, NoRet, playing, audioPlaying,
                tracks, index, TogglePlaying(playing), shuffle, repeatMode)
    /\ UNCHANGED <<nextId, pending, fetchPending,
                   timeVars, volVars, metaVars, srvVars>>

\* Shuffle button, key S: setShuffle((s) => !s)
ToggleShuffle ==
    /\ ControlsShown
    /\ Render("shuffle", 0, NoRet, playing, audioPlaying,
                tracks, index, playing, ~shuffle, repeatMode)
    /\ UNCHANGED <<nextId, pending, fetchPending,
                   timeVars, volVars, metaVars, srvVars>>

\* Repeat button, key R.
CycleRepeat ==
    /\ ControlsShown
    /\ Render("repeat", 0, NoRet, playing, audioPlaying,
                tracks, index, playing, shuffle, CycleRepeatMode(repeatMode))
    /\ UNCHANGED <<nextId, pending, fetchPending,
                   timeVars, volVars, metaVars, srvVars>>

\* Mutant of onEnd: the listener never stops at the end of the queue.
OnEndAlwaysAdvances(i, rm, next) == [index |-> next, playing |-> TRUE]

\* onEnd: what the 'ended' listener sets, given the value next that its
\* nextIndex() returned: [index, playing].
OnEnd(i, rm, next) ==
    IF next = i /\ rm = "off"
    THEN [index |-> i, playing |-> FALSE]
    ELSE [index |-> next, playing |-> TRUE]

\* playing as the 'ended' listener finds it.  The element fires 'pause' and
\* then 'ended'; the standalone component's <audio onPause={() =>
\* setPlaying(false)}> renders playing = false before the listener runs.
\* App.jsx has no onPause.
PlayingAtEnd(c, p) == IF c = "Standalone" THEN FALSE ELSE p

\* The element reaches the end of its source while playing.  The registered
\* listener calls the nextIndex of the render that registered it: index,
\* repeatMode and tracks.length are dependencies of that effect, shuffle is not.
TrackEnded ==
    /\ audioPlaying
    /\ \E next \in NextIndex(index, Len(tracks), endShuffle, repeatMode) :
         LET r == OnEnd(index, repeatMode, next)
         IN  Render("ended", 0, next, PlayingAtEnd(comp, playing), FALSE,
                    tracks, r.index, r.playing, shuffle, repeatMode)
    /\ UNCHANGED <<nextId, pending, fetchPending,
                   timeVars, volVars, metaVars, srvVars>>

Next ==
    \/ LibraryFetched
    \/ LibraryFetchFailed
    \/ AddFilesStart
    \/ AddFilesDone
    \/ RemoveTrack
    \/ ClearAll
    \/ SelectTrack
    \/ NextTrack
    \/ PrevTrack
    \/ TogglePlay
    \/ ToggleShuffle
    \/ CycleRepeat
    \/ TrackEnded

Spec == Init /\ [][Next]_vars

\* ------------------------------------------------ catalog, metadata, library
\* addFiles with every outcome of readTags and parseBlob per file, with or
\* without webkitRelativePath (folder pick).
AddFilesStartAny ==
    \E k \in 1..MaxBatch :
        \E tags \in [1..k -> TagOutcomes] :
            \E parses \in [1..k -> IF comp = "App" THEN ParseOutcomes ELSE {"ok"}] :
                \E rel \in IF comp = "App" THEN BOOLEAN ELSE {FALSE} :
                    StartAdd(k, tags, parses, rel)

\* Mutant of the library click: a track that is gone is selected all the same.
LibrarySelectAlways(t, id, i, p) == [index |-> FindIndex(t, id), playing |-> TRUE]

\* Library entry onClick: i = tracks.findIndex(t => t.id === track.id);
\* if (i >= 0) { setIndex(i); setPlaying(true); }
LibrarySelect(t, id, i, p) ==
    IF FindIndex(t, id) >= 0
    THEN [index |-> FindIndex(t, id), playing |-> TRUE]
    ELSE [index |-> i, playing |-> p]

\* App.jsx: click on an entry of the library tree.
LibraryClick ==
    /\ comp = "App"
    /\ \E id \in library :
         LET r == LibrarySelect(tracks, id, index, playing)
         IN  Render("libraryClick", id, NoRet, playing, audioPlaying,
                    tracks, r.index, r.playing, shuffle, repeatMode)
    /\ UNCHANGED <<nextId, pending, fetchPending,
                   timeVars, volVars, metaVars, srvVars>>

\* The state after construction once the library request of App.jsx has
\* failed (no server running); the standalone component makes no request.
CatalogInit ==
    /\ comp \in Components
    /\ tracks = <<>>
    /\ index = 0
    /\ playing = FALSE
    /\ shuffle = FALSE
    /\ repeatMode = "off"
    /\ endShuffle = FALSE
    /\ msClosure = NoSession
    /\ audioPlaying = FALSE
    /\ audioCmd = "none"
    /\ nextId = 1
    /\ pending = {}
    /\ fetchPending = FALSE
    /\ ev = "init"
    /\ ret = NoRet
    /\ progress = 0
    /\ duration = 0
    /\ audioTime = 0
    /\ volume = InitialVolume
    /\ muted = FALSE
    /\ gain = InitialVolume
    /\ meta = <<>>
    /\ library = {}
    /\ newLib = {}
    /\ srvIndex = <<>>
    /\ srvResp = NoResponse
    /\ srvDisk = <<>>
    /\ pre = Before(0)

CatalogNext ==
    \/ AddFilesStartAny
    \/ AddFilesDone
    \/ RemoveTrack
    \/ ClearAll
    \/ SelectTrack
    \/ LibraryClick

CatalogSpec == CatalogInit /\ [][CatalogNext]_vars

\* ------------------------------------------------------- position and seek
\* Times are counted in half seconds; the seek bar (step 0.1) is sampled at
\* that grain.
OneSecond == 2    \* the 1 of max={Math.max(1, duration)}
ArrowJump == 10   \* the 5 seconds of the arrow keys
MaxDur == 12      \* longest media duration (6 s)

coreVars == <<comp, tracks, index, playing, shuffle, repeatMode, endShuffle,
              msClosure,
              audioPlaying, audioCmd, nextId, pending, fetchPending>>

\* Mutant of the element: an assigned currentTime is taken as it is.
ElementSeekUnclamped(t, d) == t

\* audio.currentTime = t as the element takes it: within [0, duration] of the
\* loaded media; with no media loaded (d = 0) the value is kept as the
\* position to start from.
ElementSeek(t, d) == IF d = 0 THEN Max(t, 0) ELSE Min(Max(t, 0), d)

\* max={Math.max(1, duration)} of the seek bar
SeekBarMax(d) == Max(OneSecond, d)

\* setCurrentTime(val): audio.currentTime = val; setProgress(val)
SetCurrentTime(val, d) == [audioTime |-> ElementSeek(val, d), progress |-> val]

\* seekto: Math.min(Math.max(0, d.seekTime || 0), duration || 0)
SeekToTarget(seekTime, d) == Min(Max(0, seekTime), d)

\* ArrowRight: Math.min((a.currentTime || 0) + 5, duration)
ArrowRightTarget(t, d) == Min(t + ArrowJump, d)

\* ArrowLeft: Math.max((a.currentTime || 0) - 5, 0)
ArrowLeftTarget(t) == Max(t - ArrowJump, 0)

\* An event that touches only the position: the element is set to t, the
\* progress cell to p.
TimeEvent(e, a, t, p) ==
    /\ audioTime' = t
    /\ progress' = p
    /\ ev' = e
    /\ pre' = Before(a)
    /\ ret' = NoRet
    /\ UNCHANGED <<coreVars, duration, volVars, metaVars, srvVars>>

\* onLoaded: setDuration(audio.duration || 0); a source just loaded is at 0.
OnLoadedMetadata ==
    /\ Cur(tracks, index) # NoTrack
    /\ duration = 0
    /\ \E d \in 0..MaxDur :
         /\ duration' = d
         /\ audioTime' = 0
         /\ msClosure' = MediaHandlers(comp, msClosure, Cur(tracks, index),
                                       duration, Cur(tracks, index), d, index,
                                       Len(tracks), shuffle, repeatMode)
    /\ ev' = "loaded"
    /\ pre' = Before(0)
    /\ ret' = NoRet
    /\ UNCHANGED <<comp, tracks, index, playing, shuffle, repeatMode,
                   endShuffle, audioPlaying, audioCmd, nextId, pending,
                   fetchPending, progress, volVars, metaVars, srvVars>>

\* onTime: setProgress(audio.currentTime); while playing the element has moved on.
OnTimeUpdate ==
    \E t \in {audioTime, ElementSeek(audioTime + 1, duration)} :
        /\ t = audioTime \/ (audioPlaying /\ duration > 0)
        /\ TimeEvent("time", 0, t, t)

\* Seek bar: onChange={(e) => setCurrentTime(parseFloat(e.target.value))}
SeekBar ==
    /\ ControlsShown
    /\ \E val \in 0..SeekBarMax(duration) :
         LET r == SetCurrentTime(val, duration)
         IN  TimeEvent("seekBar", val, r.audioTime, r.progress)

\* Standalone: media-session seekto handler.
MediaSeekTo ==
    /\ comp = "Standalone"
    /\ \E seekTime \in 0..(MaxDur + 1) :
         TimeEvent("seekTo", seekTime,
                   ElementSeek(SeekToTarget(seekTime, duration), duration),
                   progress)

\* Standalone: ArrowRight key.
ArrowRight ==
    /\ comp = "Standalone"
    /\ TimeEvent("arrowRight", audioTime + ArrowJump,
                 ElementSeek(ArrowRightTarget(audioTime, duration), duration),
                 progress)

\* Standalone: ArrowLeft key.
ArrowLeft ==
    /\ comp = "Standalone"
    /\ TimeEvent("arrowLeft", audioTime - ArrowJump,
                 ElementSeek(ArrowLeftTarget(audioTime), duration),
                 progress)

\* A session with one or two tracks loaded and one of them selected, as
\* after addFiles and a click; in App.jsx the tracks may be in the library.
TimeInit ==
    /\ comp \in Components
    /\ \E n \in 1..2 :
         /\ tracks = [k \in 1..n |-> k]
         /\ index \in 0..(n - 1)
         /\ nextId = n + 1
         /\ meta = [id \in 1..n |-> TrackMeta(comp, "tags", "ok")]
         /\ library \in IF comp = "App" THEN {{}, 1..n} ELSE {{}}
    /\ playing \in BOOLEAN
    /\ audioPlaying = playing
    /\ audioCmd = IF playing THEN "play" ELSE "pause"
    /\ shuffle = FALSE
    /\ repeatMode = "off"
    /\ endShuffle = FALSE
    /\ msClosure = NoSession
    /\ pending = {}
    /\ fetchPending = FALSE
    /\ ev = "init"
    /\ ret = NoRet
    /\ progress = 0
    /\ duration = 0
    /\ audioTime = 0
    /\ volume = InitialVolume
    /\ muted = FALSE
    /\ gain = InitialVolume
    /\ newLib = {}
    /\ srvIndex = <<>>
    /\ srvResp = NoResponse
    /\ srvDisk = <<>>
    /\ pre = Before(0)

TimeNext ==
    \/ OnLoadedMetadata
    \/ OnTimeUpdate
    \/ SeekBar
    \/ MediaSeekTo
    \/ ArrowRight
    \/ ArrowLeft
    \/ ClearAll

TimeSpec == TimeInit /\ [][TimeNext]_vars

\* ------------------------------------------------------------ volume, mute
\* Volumes are counted in hundredths, the step of the slider.
VolumeMax == 100   \* max={1} of the slider, Math.min(1, ...) of the "+" key
VolumeStep == 5    \* the 0.05 of the "+" and "-" keys

\* Mutant of the volume effect: the mute flag is ignored.
GainIgnoresMute(v, m) == v

\* audio.volume = muted ? 0 : volume
Gain(v, m) == IF m THEN 0 ELSE v

\* setMuted((m) => !m)
ToggleMuted(v, m) == [volume |-> v, muted |-> ~m]

\* "+": setVolume((v) => Math.min(1, v + 0.05))
VolumeUpTarget(v) == Min(VolumeMax, v + VolumeStep)

\* "-": setVolume((v) => Math.max(0, v - 0.05))
VolumeDownTarget(v) == Max(0, v - VolumeStep)

\* A volume or mute event and the render after it: useEffect[volume, muted]
\* sets the element's volume when either cell changed.
VolumeEvent(e, a, v2, m2) ==
    /\ volume' = v2
    /\ muted' = m2
    /\ gain' = IF <<v2, m2>> # <<volume, muted>> THEN Gain(v2, m2) ELSE gain
    /\ ev' = e
    /\ pre' = Before(a)
    /\ ret' = NoRet
    /\ UNCHANGED <<coreVars, timeVars, metaVars, srvVars>>

\* Volume slider: onChange={(e) => setVolume(parseFloat(e.target.value))}
SetVolume ==
    /\ ControlsShown
    /\ \E v \in 0..VolumeMax : VolumeEvent("setVolume", v, v, muted)

\* Standalone: "+" key.
VolumeUp ==
    /\ comp = "Standalone"
    /\ VolumeEvent("volumeUp", 0, VolumeUpTarget(volume), muted)

\* Standalone: "-" key.
VolumeDown ==
    /\ comp = "Standalone"
    /\ VolumeEvent("volumeDown", 0, VolumeDownTarget(volume), muted)

\* Mute button: onClick={() => setMuted((m) => !m)}
ToggleMute ==
    /\ ControlsShown
    /\ LET r == ToggleMuted(volume, muted)
       IN  VolumeEvent("toggleMute", 0, r.volume, r.muted)

\* A session with one track loaded and selected.
VolInit ==
    /\ TimeInit
    /\ tracks = <<1>>
    /\ ~playing
    /\ library = {}

VolNext ==
    \/ SetVolume
    \/ VolumeUp
    \/ VolumeDown
    \/ ToggleMute

VolSpec == VolInit /\ [][VolNext]_vars

\* ------------------------------------------------------------- the server
MaxFiles == 3     \* files under MUSIC_DIR

\* Files are numbered; a file's number stands for its full path.
Files == 1..MaxFiles

\* uuidv4() values the server can draw.
ServerIds == (ServerBase + 1)..(ServerBase + MaxFiles)

\* Ids a client may ask for: those the server can draw, one it cannot, and
\* the id of a local track.
RequestIds == ServerIds \cup {ServerBase, 1}

\* A file name is a sequence of pieces: single characters ("s" for a
\* letter, "." and the backslash) and, as one piece each, the letters of an
\* extension.  NoFile: there is no such file.
NoFile == <<>>

AnyChar == {"s", ".", "\\"}

AudioExts == {"mp3", "flac", "wav", "aac", "ogg"}

\* song.mp3, SONG.MP3, s\.mp3, s\smp3 and notes.txt
Names ==
    {<<"s", ".", "mp3">>, <<"s", ".", "MP3">>, <<"s", "\\", ".", "mp3">>,
     <<"s", "\\", "s", "mp3">>, <<"s", ".", "txt">>}

\* The i flag: letters compare without case.
Lower(piece) == IF piece = "MP3" THEN "mp3" ELSE piece

\* f.match(/\\.(mp3|flac|wav|aac|ogg)$/i): in a regex literal \\ is a
\* backslash and the . after it any character, so the name has to end in a
\* backslash, one character and an extension.
Matches(name) ==
    /\ Len(name) >= 3
    /\ Lower(name[Len(name)]) \in AudioExts
    /\ name[Len(name) - 1] \in AnyChar
    /\ name[Len(name) - 2] = "\\"

\* indexLibrary: the files found by walk() whose name matches, in the order
\* of the walk, each with a fresh uuid.
IndexLibrary(disk, ids) ==
    LET Walk[k \in 0..MaxFiles] ==
            IF k = 0 THEN <<>>
            ELSE IF disk[k] # NoFile /\ Matches(disk[k])
            THEN Append(Walk[k - 1], [id |-> ids[k], path |-> k])
            ELSE Walk[k - 1]
    IN  Walk[MaxFiles]

\* Mutant of the stream handler: an unknown id gets the first indexed file.
StreamAnyId(idx, id) ==
    IF \E k \in 1..Len(idx) : idx[k].id = id
    THEN [status |-> 200, body |-> "file",
          path |-> idx[CHOOSE k \in 1..Len(idx) :
                         /\ idx[k].id = id
                         /\ \A j \in 1..(k - 1) : idx[j].id # id].path]
    ELSE IF Len(idx) > 0
    THEN [status |-> 200, body |-> "file", path |-> idx[1].path]
    ELSE [status |-> 404, body |-> "Not found", path |-> 0]

\* GET /api/stream/:id: track = tracks.find(t => t.id === id);
\* if (!track) return res.status(404).send("Not found");
\* res.sendFile(track.path)
StreamResponse(idx, id) ==
    IF \E k \in 1..Len(idx) : idx[k].id = id
    THEN [status |-> 200, body |-> "file",
          path |-> idx[CHOOSE k \in 1..Len(idx) :
                         /\ idx[k].id = id
                         /\ \A j \in 1..(k - 1) : idx[j].id # id].path]
    ELSE [status |-> 404, body |-> "Not found", path |-> 0]

\* GET /api/library: res.json(tracks)
LibraryResponse(idx) == [status |-> 200, body |-> "json", path |-> 0]

\* A request answered by the server; no handler assigns the index.
ServerEvent(e, a, resp) ==
    /\ srvResp' = resp
    /\ srvIndex' = srvIndex
    /\ ev' = e
    /\ pre' = Before(a)
    /\ ret' = NoRet
    /\ UNCHANGED <<coreVars, timeVars, volVars, metaVars, srvDisk>>

GetStream == \E id \in RequestIds : ServerEvent("stream", id, StreamResponse(srvIndex, id))

GetLibrary == ServerEvent("library", 0, LibraryResponse(srvIndex))

\* The server after indexLibrary(MUSIC_DIR) and listen, with the client of
\* App.jsx just constructed.
ServerInit ==
    /\ comp = "App"
    /\ tracks = <<>>
    /\ index = 0
    /\ playing = FALSE
    /\ shuffle = FALSE
    /\ repeatMode = "off"
    /\ endShuffle = FALSE
    /\ msClosure = NoSession
    /\ audioPlaying = FALSE
    /\ audioCmd = "none"
    /\ nextId = 1
    /\ pending = {}
    /\ fetchPending = FALSE
    /\ ev = "init"
    /\ ret = NoRet
    /\ progress = 0
    /\ duration = 0
    /\ audioTime = 0
    /\ volume = InitialVolume
    /\ muted = FALSE
    /\ gain = InitialVolume
    /\ meta = <<>>
    /\ library = {}
    /\ newLib = {}
    /\ srvDisk \in [Files -> Names \cup {NoFile}]
    /\ \E ids \in [Files -> ServerIds] :
         LET hits == {k \in Files : srvDisk[k] # NoFile /\ Matches(srvDisk[k])}
         IN  /\ \A a, b \in hits : ids[a] = ids[b] => a = b
             /\ \A a \in Files \ hits : ids[a] = ServerBase + a
             /\ srvIndex = IndexLibrary(srvDisk, ids)
    /\ srvResp = NoResponse
    /\ pre = Before(0)

ServerNext ==
    \/ GetStream
    \/ GetLibrary

ServerSpec == ServerInit /\ [][ServerNext]_vars

\* --------------------------------------------- the client with its server
\* <audio src>: App.jsx builds the stream URL from the id of tracks[index],
\* whatever the track's own src field; the standalone component uses
\* current?.src, the object URL made by addFiles.
AudioSrc(c, t, i) ==
    IF Cur(t, i) = NoTrack THEN [kind |-> "none", id |-> NoTrack]
    ELSE IF c = "App" THEN [kind |-> "stream", id |-> Cur(t, i)]
    ELSE [kind |-> "local", id |-> Cur(t, i)]

\* The library request answered by the server: res.json(tracks).
LibraryFetchedFromIndex ==
    SetFetchedTracks([k \in 1..Len(srvIndex) |-> srvIndex[k].id])

\* The element loads its source: a stream URL is a request to the server.
LoadSource ==
    /\ AudioSrc(comp, tracks, index).kind = "stream"
    /\ ServerEvent("load", AudioSrc(comp, tracks, index).id,
                   StreamResponse(srvIndex, AudioSrc(comp, tracks, index).id))

\* App.jsx just constructed, its server having indexed a directory in which
\* every file is named s\.mp3.
SourceInit ==
    /\ comp = "App"
    /\ tracks = <<>>
    /\ index = 0
    /\ playing = FALSE
    /\ shuffle = FALSE
    /\ repeatMode = "off"
    /\ endShuffle = FALSE
    /\ msClosure = NoSession
    /\ audioPlaying = FALSE
    /\ audioCmd = "none"
    /\ nextId = 1
    /\ pending = {}
    /\ fetchPending = TRUE
    /\ ev = "init"
    /\ ret = NoRet
    /\ progress = 0
    /\ duration = 0
    /\ audioTime = 0
    /\ volume = InitialVolume
    /\ muted = FALSE
    /\ gain = InitialVolume
    /\ meta = <<>>
    /\ library = {}
    /\ newLib = {}
    /\ srvDisk \in [Files -> {<<"s", "\\", ".", "mp3">>, NoFile}]
    /\ srvIndex = IndexLibrary(srvDisk, [k \in Files |-> ServerBase + k])
    /\ srvResp = NoResponse
    /\ pre = Before(0)

SourceNext ==
    \/ LibraryFetchedFromIndex
    \/ LibraryFetchFailed
    \/ AddFilesStart
    \/ AddFilesDone
    \/ SelectTrack
    \/ LoadSource

SourceSpec == SourceInit /\ [][SourceNext]_vars

\* --------------------------------------------- removal in the standalone
\* Two clicks on the remove button of playlist entry id before the next
\* render: both removeTrack(id) calls close over the same index, and their
\* updaters run one after the other, the second on the catalog the first
\* returned, where findIndex gives -1.  A setIndex of the second call
\* overwrites that of the first.
RemoveTrackTwice ==
    /\ comp = "Standalone"
    /\ \E k \in 1..Len(tracks) :
         LET id == tracks[k]
             r1 == RemoveTrackStandalone(tracks, index, playing, id)
             r2 == RemoveTrackStandalone(r1.tracks, index, r1.playing, id)
             i2 == IF FindIndex(r1.tracks, id) <= index THEN r2.index
                   ELSE r1.index
         IN  Render("removeTwice", id, NoRet, playing, audioPlaying,
                    r2.tracks, i2, r2.playing, shuffle, repeatMode)
    /\ UNCHANGED <<nextId, pending, fetchPending,
                   timeVars, volVars, metaVars, srvVars>>

\* The standalone component with one to MaxCount tracks added and one of
\* them selected, playing or paused.
RemoveInit ==
    /\ comp = "Standalone"
    /\ \E n \in 1..MaxCount :
         /\ tracks = [k \in 1..n |-> k]
         /\ index \in 0..(n - 1)
         /\ nextId = n + 1
         /\ meta = [id \in 1..n |-> TrackMeta(comp, "tags", "ok")]
    /\ playing \in BOOLEAN
    /\ audioPlaying = playing
    /\ audioCmd = IF playing THEN "play" ELSE "pause"
    /\ shuffle = FALSE
    /\ repeatMode = "off"
    /\ endShuffle = FALSE
    /\ msClosure = NoSession
    /\ pending = {}
    /\ fetchPending = FALSE
    /\ ev = "init"
    /\ ret = NoRet
    /\ progress = 0
    /\ duration = 0
    /\ audioTime = 0
    /\ volume = InitialVolume
    /\ muted = FALSE
    /\ gain = InitialVolume
    /\ library = {}
    /\ newLib = {}
    /\ srvIndex = <<>>
    /\ srvResp = NoResponse
    /\ srvDisk = <<>>
    /\ pre = Before(0)

RemoveNext ==
    \/ RemoveTrack
    \/ RemoveTrackTwice
    \/ SelectTrack

RemoveSpec == RemoveInit /\ [][RemoveNext]_vars

\* ------------------------------------------------- media-session handlers
\* Standalone: setActionHandler("nexttrack", () => setIndex(nextIndex())),
\* nextIndex being the function of the render that registered the handler.
MediaNextTrack ==
    /\ comp = "Standalone" /\ msClosure.on
    /\ \E r \in NextIndex(msClosure.index, msClosure.count, msClosure.shuffle,
                          msClosure.repeatMode) :
         Render("mediaNext", 0, r, playing, audioPlaying,
                tracks, r, playing, shuffle, repeatMode)
    /\ UNCHANGED <<nextId, pending, fetchPending,
                   timeVars, volVars, metaVars, srvVars>>

\* Standalone: setActionHandler("previoustrack", () => setIndex(prevIndex()))
MediaPreviousTrack ==
    /\ comp = "Standalone" /\ msClosure.on
    /\ \E r \in PrevIndex(msClosure.index, msClosure.count, msClosure.shuffle,
                          msClosure.repeatMode) :
         Render("mediaPrev", 0, r, playing, audioPlaying,
                tracks, r, playing, shuffle, repeatMode)
    /\ UNCHANGED <<nextId, pending, fetchPending,
                   timeVars, volVars, metaVars, srvVars>>

\* The standalone component in a browser with the Media Session API, one to
\* MaxCount tracks added in one call and one of them selected: the handlers
\* were registered by the render of that selection.
MediaInit ==
    /\ comp = "Standalone"
    /\ \E n \in 1..MaxCount :
         /\ tracks = [k \in 1..n |-> k]
         /\ index \in 0..(n - 1)
         /\ nextId = n + 1
         /\ meta = [id \in 1..n |-> TrackMeta(comp, "tags", "ok")]
    /\ playing \in BOOLEAN
    /\ audioPlaying = playing
    /\ audioCmd = IF playing THEN "play" ELSE "pause"
    /\ shuffle = FALSE
    /\ repeatMode = "off"
    /\ endShuffle = FALSE
    /\ msClosure = [on |-> TRUE, index |-> index, count |-> Len(tracks),
                    shuffle |-> FALSE, repeatMode |-> "off"]
    /\ pending = {}
    /\ fetchPending = FALSE
    /\ ev = "init"
    /\ ret = NoRet
    /\ progress = 0
    /\ duration = 0
    /\ audioTime = 0
    /\ volume = InitialVolume
    /\ muted = FALSE
    /\ gain = InitialVolume
    /\ library = {}
    /\ newLib = {}
    /\ srvIndex = <<>>
    /\ srvResp = NoResponse
    /\ srvDisk = <<>>
    /\ pre = Before(0)

MediaNext ==
    \/ NextTrack
    \/ PrevTrack
    \/ MediaNextTrack
    \/ MediaPreviousTrack
    \/ RemoveTrack
    \/ SelectTrack
    \/ ToggleShuffle

MediaSpec == MediaInit /\ [][MediaNext]_vars

\* ------------------------------------------------- the sequencer on its own
\* nextIndex and prevIndex read index, tracks.length, shuffle and repeatMode of
\* the render they belong to.  SeqSpec applies them to every such state with
\* at most MaxCount tracks; index ranges over -1 .. count, the values a
\* component can hold (see C7).
SeqInit ==
    /\ comp \in Components
    /\ \E n \in 0..MaxCount :
         /\ tracks = [k \in 1..n |-> k]
         /\ index \in (-1)..n
    /\ playing = FALSE
    /\ shuffle \in BOOLEAN
    /\ repeatMode \in RepeatModes
    /\ endShuffle = shuffle
    /\ msClosure = NoSession
    /\ audioPlaying = FALSE
    /\ audioCmd = "none"
    /\ nextId = 1
    /\ pending = {}
    /\ fetchPending = FALSE
    /\ ev = "init"
    /\ ret = NoRet
    /\ progress = 0
    /\ duration = 0
    /\ audioTime = 0
    /\ volume = InitialVolume
    /\ muted = FALSE
    /\ gain = InitialVolume
    /\ meta = <<>>
    /\ library = {}
    /\ newLib = {}
    /\ srvIndex = <<>>
    /\ srvResp = NoResponse
    /\ srvDisk = <<>>
    /\ pre = Before(0)

CallNextIndex ==
    /\ ret' \in NextIndex(index, Len(tracks), shuffle, repeatMode)
    /\ ev' = "nextIndex"
    /\ UNCHANGED <<comp, tracks, index, playing, shuffle, repeatMode, endShuffle,
                   msClosure, audioPlaying, audioCmd, nextId, pending, fetchPending, pre,
                   timeVars, volVars, metaVars, srvVars>>

CallPrevIndex ==
    /\ ret' \in PrevIndex(index, Len(tracks), shuffle, repeatMode)
    /\ ev' = "prevIndex"
    /\ UNCHANGED <<comp, tracks, index, playing, shuffle, repeatMode, endShuffle,
                   msClosure, audioPlaying, audioCmd, nextId, pending, fetchPending, pre,
                   timeVars, volVars, metaVars, srvVars>>

SeqNext ==
    \/ CallNextIndex
    \/ CallPrevIndex

SeqSpec == SeqInit /\ [][SeqNext]_vars

\* ------------------------------------------------ the shuffle loop by steps
\* nextIndex returns before the loop under repeat one; both functions enter
\* it only if (shuffle && tracks.length > 1).
EntersLoop(fn, count, sh, rm) ==
    /\ fn = "next" => rm # "one"
    /\ sh
    /\ count > 1

\* Mutant of the loop condition: every draw is rejected.
LoopAgainAlways(r, current) == TRUE

\* while (r === index)
LoopAgain(r, current) == r = current

\* A call of nextIndex() or prevIndex(), up to the loop or, without it, to
\* the return.
CallSequencer ==
    /\ ev = "init"
    /\ \E fn \in {"next", "prev"} :
         IF EntersLoop(fn, Len(tracks), shuffle, repeatMode)
         THEN /\ ev' = "loop"
              /\ ret' = NoRet
         ELSE /\ ev' = "linear"
              /\ ret' \in IF fn = "next"
                          THEN NextIndex(index, Len(tracks), shuffle, repeatMode)
                          ELSE PrevIndex(index, Len(tracks), shuffle, repeatMode)
    /\ UNCHANGED <<comp, tracks, index, playing, shuffle, repeatMode, endShuffle,
                   msClosure, audioPlaying, audioCmd, nextId, pending,
                   fetchPending, pre, timeVars, volVars, metaVars, srvVars>>

\* One pass of the loop body: r = Math.floor(Math.random() * tracks.length)
\* came out as r; pre.arg notes that a draw has been rejected.
DrawValue(r) ==
    /\ ev = "loop"
    /\ r \in 0..(Len(tracks) - 1)
    /\ ret' = r
    /\ IF LoopAgain(r, index)
       THEN /\ ev' = "loop"
            /\ pre' = [pre EXCEPT !.arg = 1]
       ELSE /\ ev' = "returned"
            /\ pre' = pre
    /\ UNCHANGED <<comp, tracks, index, playing, shuffle, repeatMode, endShuffle,
                   msClosure, audioPlaying, audioCmd, nextId, pending,
                   fetchPending, timeVars, volVars, metaVars, srvVars>>

DrawNext ==
    \/ CallSequencer
    \/ \E r \in 0..(MaxCount - 1) : DrawValue(r)

\* Math.random() yields every index again and again.
DrawFairness == \A r \in 0..(MaxCount - 1) : WF_vars(DrawValue(r))

DrawSpec == SeqInit /\ [][DrawNext]_vars /\ DrawFairness

\* ================================================================= claims
Count == Len(tracks)

InCatalog(i, n) == 0 <= i /\ i < n

\* C1: when the element fires 'ended': if the nextIndex() of the listener
\* equals the index and repeatMode is off, playing becomes false and the index
\* stays; in every other case the index becomes that nextIndex() and playing
\* is true.
C1_EndOfTrack ==
    ev = "ended" =>
        IF ret = pre.index /\ pre.repeatMode = "off"
        THEN ~playing /\ index = pre.index
        ELSE index = ret /\ playing

\* C1 witness: the last of several tracks ended with repeat off; playback stopped.
C1_Witness ==
    /\ ev = "ended" /\ pre.repeatMode = "off" /\ ret = pre.index
    /\ Count > 1 /\ index = Count - 1 /\ pre.playing /\ ~playing

\* C2 (as claimed): in App.jsx, with playing = true, when the track ends under
\* repeat one (or repeat all with a single track) the same track is replayed:
\* same index, playing true, and the play effect calls audio.play() again.
C2_RepeatReplays ==
    ( /\ comp = "App" /\ ev = "ended" /\ pre.playing
      /\ \/ pre.repeatMode = "one"
         \/ pre.repeatMode = "all" /\ Len(pre.tracks) = 1 /\ pre.index = 0 )
    => (index = pre.index /\ playing /\ audioCmd = "play")

\* C3 (as claimed): with shuffle on and more than one track, for every
\* repeatMode, nextIndex and prevIndex return an index of the catalog that is
\* not the current index.
C3_ShuffleNeverCurrent ==
    (ev \in {"nextIndex", "prevIndex"} /\ shuffle /\ Count > 1)
    => (InCatalog(ret, Count) /\ ret # index)

\* C3 (amended): with shuffle on and more than one track, prevIndex for every
\* repeatMode and nextIndex for repeatMode off and all return an index of the
\* catalog that is not the current index; nextIndex under repeatMode one
\* returns the current index.
C3_ShuffleNeverCurrentUnlessRepeatOne ==
    (ev \in {"nextIndex", "prevIndex"} /\ shuffle /\ Count > 1)
    => IF ev = "nextIndex" /\ repeatMode = "one"
       THEN ret = index
       ELSE InCatalog(ret, Count) /\ ret # index

\* C3 witness: a draw among three tracks that is not the neighbour.
C3_Witness ==
    /\ ev = "nextIndex" /\ shuffle /\ repeatMode = "off"
    /\ Count = 3 /\ index = 0 /\ ret = 2

\* C4 (as claimed): with repeatMode one and a non-empty catalog, prevIndex
\* returns the current index unchanged.
C4_PrevRepeatOne ==
    (ev = "prevIndex" /\ repeatMode = "one" /\ Count > 0 /\ InCatalog(index, Count))
    => ret = index

\* C5: nextIndex is the reference function: current under repeat one; else,
\* without shuffle or with a single track, current + 1 if that is a track,
\* else 0 under repeat all, else current.
C5_NextIndexReference ==
    (ev = "nextIndex" /\ Count > 0 /\ InCatalog(index, Count))
    => IF repeatMode = "one" THEN ret = index
       ELSE (~shuffle \/ Count = 1)
            => ret = IF index + 1 < Count THEN index + 1
                     ELSE IF repeatMode = "all" THEN 0 ELSE index

\* C5 witness: the last of three tracks under repeat all wraps to 0.
C5_Witness ==
    /\ ev = "nextIndex" /\ ~shuffle /\ repeatMode = "all"
    /\ Count = 3 /\ index = 2 /\ ret = 0

\* C6: without shuffle (or with a single track) and repeatMode off or all,
\* prevIndex returns current - 1 when current > 0; at 0 it returns count - 1
\* under repeat all and 0 otherwise.
C6_PrevIndexLinear ==
    ( /\ ev = "prevIndex" /\ Count > 0 /\ InCatalog(index, Count)
      /\ (~shuffle \/ Count = 1) /\ repeatMode \in {"off", "all"} )
    => ret = IF index > 0 THEN index - 1
             ELSE IF repeatMode = "all" THEN Count - 1 ELSE 0

\* C6 witness: the first of three tracks under repeat all wraps to the last.
C6_Witness ==
    /\ ev = "prevIndex" /\ ~shuffle /\ repeatMode = "all"
    /\ Count = 3 /\ index = 0 /\ ret = 2

\* C7 (as claimed): in every reachable state the index is an index into the
\* catalog, 0 <= index < count, and it is 0 when the catalog is empty.
C7_IndexInCatalog ==
    IF Count > 0 THEN InCatalog(index, Count) ELSE index = 0

\* C8 (as claimed): removeTrack of a track other than the current one keeps
\* the same track selected: the index decrements if the removed track
\* precedes the current one and is unchanged if it follows.
C8_RemoveOtherKeepsCurrent ==
    (ev = "remove" /\ pre.cur # NoTrack /\ pre.arg # pre.cur)
    => /\ Cur(tracks, index) = pre.cur
       /\ index = IF FindIndex(pre.tracks, pre.arg) < pre.index
                  THEN pre.index - 1 ELSE pre.index

\* C9 (as claimed): removeTrack of the current track moves the selection to
\* min(removedIndex, newCount - 1), 0 if the catalog becomes empty, and sets
\* playing to false.
C9_RemoveCurrentStops ==
    (ev = "remove" /\ pre.cur # NoTrack /\ pre.arg = pre.cur)
    => /\ index = Max(0, Min(pre.index, Count - 1))
       /\ ~playing

\* C10 (as claimed): togglePlay flips playing when there is a current track
\* and changes nothing when there is none.
C10_TogglePlay ==
    ev = "toggle" =>
        IF pre.cur # NoTrack
        THEN playing = ~pre.playing
        ELSE playing = pre.playing /\ ~playing

SeekEvents == {"seekBar", "seekTo", "arrowRight", "arrowLeft"}

Clamp(t, lo, hi) == IF t < lo THEN lo ELSE IF t > hi THEN hi ELSE t

\* C11 (as claimed): with the duration known, every seek puts the element at
\* the requested time clamped to [0, duration], never leaves the position
\* shown above the duration, and does not change playing.
C11_SeekClamped ==
    (ev \in SeekEvents /\ duration > 0)
    => /\ audioTime = Clamp(pre.arg, 0, duration)
       /\ progress <= duration
       /\ playing = pre.playing

\* C12 (as claimed): after a start of playback that failed (play() was called
\* and the element is not playing) the session has playing = false.
C12_PlayFailureIsPaused ==
    (audioCmd = "play" /\ ~audioPlaying) => ~playing

\* C13: clearAll resets the session: catalog and library tree empty, index 0,
\* playing false, position 0 and duration 0.
C13_ClearAllResets ==
    ev = "clear"
    => /\ tracks = <<>> /\ library = {}
       /\ index = 0 /\ ~playing
       /\ progress = 0 /\ duration = 0

\* C13 witness: a playing session with a known duration, a position and a
\* library tree was cleared.
C13_Witness ==
    /\ ev = "clear" /\ pre.playing /\ pre.index = 1 /\ Len(pre.tracks) = 2
    /\ pre.progress > 0 /\ pre.duration > 0 /\ pre.library # {}
    /\ tracks = <<>>
\* C14: volume stays in [0, 1], the element's gain is (muted ? 0 : volume),
\* and the mute button keeps the stored volume, so that muting and unmuting
\* gives the gain back.
C14_VolumeAndMute ==
    /\ volume \in 0..VolumeMax
    /\ gain = (IF muted THEN 0 ELSE volume)
    /\ ev = "toggleMute" => /\ volume = pre.volume
                            /\ muted = ~pre.muted
                            /\ (pre.muted => gain = volume)

\* C14 witness: a muted session at a volume other than the initial one was
\* unmuted and plays at that volume again.
C14_Witness ==
    /\ ev = "toggleMute" /\ pre.muted /\ pre.gain = 0
    /\ volume # InitialVolume /\ volume > 0 /\ gain = volume
\* C15: when metadata resolves for files being added (and when they are
\* inserted), the selected track and the title, artist and art shown for it
\* stay as they were.
C15_MetadataBoundToOwnTrack ==
    (ev \in {"addStart", "addDone"} /\ pre.cur # NoTrack)
    => /\ Cur(tracks, index) = pre.cur
       /\ Display(tracks, index, meta) = pre.shown

\* C15 witness: a track was inserted whose tags differ from those of the
\* selected track.
C15_Witness ==
    /\ ev = "addDone" /\ pre.cur # NoTrack /\ pre.cur \in DOMAIN meta
    /\ \E k \in (Len(pre.tracks) + 1)..Len(tracks) :
         meta[tracks[k]].meta # meta[pre.cur].meta

\* C16: whatever readTags and parseBlob did, a finished addFiles of k audio
\* files has appended k new, distinct entries, each with a non-empty title
\* that is the file name when no title tag was read; and every started
\* addFiles can finish.
C16_MetadataFailureStillAdds ==
    /\ ev = "addDone"
       => /\ Len(tracks) = Len(pre.tracks) + pre.arg
          /\ \A k \in (Len(pre.tracks) + 1)..Len(tracks) :
               /\ tracks[k] \notin Range(pre.tracks)
               /\ \A j \in (Len(pre.tracks) + 1)..Len(tracks) :
                    tracks[j] = tracks[k] => j = k
               /\ meta[tracks[k]].tag # "tags"
                  => meta[tracks[k]].meta.title = "name"
    /\ pending # {} => ENABLED AddFilesDone

\* C16 witness: a batch of two files was inserted, the tag read of one
\* having thrown and the format parse of the other having failed.
C16_Witness ==
    /\ ev = "addDone" /\ pre.arg = 2 /\ comp = "App"
    /\ meta[tracks[Len(tracks)]].tag = "throws"
    /\ meta[tracks[Len(tracks) - 1]].quality = "Unknown"

\* C19: a click on playlist entry i sets index = i and playing = true; a click
\* on a library entry does the same for the position of its track in the
\* catalog, and changes nothing when the track is not in the catalog.
C19_SelectTrack ==
    /\ ev = "select" => (index = pre.arg /\ playing /\ tracks = pre.tracks)
    /\ ev = "libraryClick"
       => IF \E k \in 1..Len(pre.tracks) : pre.tracks[k] = pre.arg
          THEN /\ tracks[index + 1] = pre.arg
               /\ playing
               /\ tracks = pre.tracks
          ELSE /\ index = pre.index
               /\ playing = pre.playing
               /\ tracks = pre.tracks

\* C19 witness: a library entry whose track had been removed from the
\* catalog was clicked while another track was selected and paused.
C19_Witness ==
    /\ ev = "libraryClick" /\ pre.arg \notin Range(pre.tracks)
    /\ pre.cur # NoTrack /\ ~pre.playing
\* C17: the stream endpoint answers 404 to an id of no indexed track, sends
\* the file at the path of the track with the id otherwise, and no request
\* changes the index.
C17_StreamEndpoint ==
    /\ ev = "stream"
       => IF \E k \in 1..Len(pre.srvIndex) : pre.srvIndex[k].id = pre.arg
          THEN /\ srvResp.body = "file"
               /\ \E k \in 1..Len(pre.srvIndex) :
                    /\ pre.srvIndex[k].id = pre.arg
                    /\ pre.srvIndex[k].path = srvResp.path
          ELSE /\ srvResp.status = 404
               /\ srvResp.body # "file"
    /\ ev \in {"stream", "library"} => srvIndex = pre.srvIndex

\* C17 witness: with two files indexed, a request for an id the server could
\* have drawn but did not was answered 404.
C17_Witness ==
    /\ ev = "stream" /\ Len(srvIndex) = 2
    /\ pre.arg \in ServerIds
    /\ \A k \in 1..Len(srvIndex) : srvIndex[k].id # pre.arg
    /\ srvResp.status = 404
NoDuplicates(t) == \A a, b \in 1..Len(t) : t[a] = t[b] => a = b

\* C18: the ids in the catalog are pairwise distinct; removeTrack(id) leaves
\* exactly the entries with another id, in the order they had; a finished
\* addFiles leaves the entries that were there where they were.
C18_IdsUniqueAndStable ==
    /\ NoDuplicates(tracks)
    /\ ev = "remove"
       => /\ Range(tracks) = Range(pre.tracks) \ {pre.arg}
          /\ \A a, b \in 1..Len(tracks) :
               a < b => FindIndex(pre.tracks, tracks[a])
                          < FindIndex(pre.tracks, tracks[b])
    /\ ev = "addDone"
       => /\ Len(tracks) >= Len(pre.tracks)
          /\ \A k \in 1..Len(pre.tracks) : tracks[k] = pre.tracks[k]

\* C18 witness: the first of two tracks was removed and the second is now
\* the only entry.
C18_Witness ==
    /\ ev = "remove" /\ Len(pre.tracks) = 2 /\ pre.arg = pre.tracks[1]
    /\ tracks = <<pre.tracks[2]>>

\* C20 (as claimed): the transition at the end of a track is the one nextIndex
\* gives for the index, count, shuffle and repeatMode of that moment.
C20_EndUsesCurrentShuffle ==
    ev = "ended"
    => /\ ret \in NextIndex(pre.index, Len(pre.tracks), pre.shuffle, pre.repeatMode)
       /\ (pre.shuffle /\ Len(pre.tracks) > 1 /\ pre.repeatMode = "off")
          => (playing /\ index # pre.index)
\* Ends in .mp3, .flac, .wav, .aac or .ogg, letters compared without case.
EndsInAudioExt(name) ==
    /\ Len(name) >= 2
    /\ Lower(name[Len(name)]) \in AudioExts
    /\ name[Len(name) - 1] = "."

\* C23 (as claimed): the index has exactly one entry, with an id of its own,
\* for every file whose name ends in an audio extension, and no other entry.
C23_IndexHoldsAudioFiles ==
    Len(srvDisk) > 0
    => /\ \A k \in DOMAIN srvDisk :
            Cardinality({j \in 1..Len(srvIndex) : srvIndex[j].path = k})
              = IF srvDisk[k] # NoFile /\ EndsInAudioExt(srvDisk[k]) THEN 1 ELSE 0
       /\ \A a, b \in 1..Len(srvIndex) :
            srvIndex[a].id = srvIndex[b].id => a = b
\* C21 (as claimed): in App.jsx whatever source the element loads for the
\* selected track is answered by the server with that track's file, never
\* with 404.
C21_SourceResolves ==
    (ev = "load" /\ comp = "App") => srvResp.body = "file"
\* C22 (as claimed): in App.jsx a track that addFiles has put in the catalog
\* stays there, once, through every event other than removeTrack and
\* clearAll.
C22_NoAddedTrackLost ==
    (comp = "App" /\ ev \notin {"init", "remove", "clear"})
    => \A id \in Range(pre.tracks) :
         id < ServerBase
         => Cardinality({k \in 1..Len(tracks) : tracks[k] = id}) = 1

\* C25 (as claimed): a completion that directly follows clearAll, of an
\* addFiles call or of the library fetch, both started before it, leaves the
\* catalog and the library tree empty.
C25_ClearedStaysEmpty ==
    [][(ev = "clear" /\ ev' \in {"addDone", "fetch"})
       => (tracks' = <<>> /\ library' = {})]_vars
\* C24 (as claimed): in the standalone component removing the same id twice
\* leaves the catalog, the index and playing as removing it once does.
C24_RemoveTwiceAsOnce ==
    ev = "removeTwice"
    => LET once == RemoveTrackStandalone(pre.tracks, pre.index, pre.playing,
                                         pre.arg)
       IN  /\ tracks = once.tracks
           /\ index = once.index
           /\ playing = once.playing
NextEvents == {"next", "mediaNext"}

PrevEvents == {"prev", "mediaPrev"}

\* C26 (as claimed): a manual next or previous, by button, key or media
\* session, sets the index to what nextIndex or prevIndex gives for the state
\* it starts from and leaves playing, shuffle, repeatMode, volume, muted and
\* the catalog alone; forward from the last track with shuffle and repeat
\* off it changes nothing.
C26_SkipChangesOnlyIndex ==
    ev \in NextEvents \cup PrevEvents
    => /\ playing = pre.playing /\ shuffle = pre.shuffle
       /\ repeatMode = pre.repeatMode /\ tracks = pre.tracks
       /\ volume = pre.volume /\ muted = pre.muted
       /\ index = ret
       /\ ev \in NextEvents
          => ret \in NextIndex(pre.index, Len(pre.tracks), pre.shuffle,
                               pre.repeatMode)
       /\ ev \in PrevEvents
          => ret \in PrevIndex(pre.index, Len(pre.tracks), pre.shuffle,
                               pre.repeatMode)
       /\ (ev \in NextEvents /\ ~pre.shuffle /\ pre.repeatMode = "off"
            /\ pre.index = Len(pre.tracks) - 1)
          => index = pre.index
\* C27: a shuffle loop that was entered returns, with an index of the catalog
\* other than the current one; with fewer than two tracks it is not entered.
C27_ShuffleDrawTerminates ==
    /\ (ev = "loop") ~> (ev = "returned")
    /\ [](ev = "loop" => Len(tracks) > 1)
    /\ [](ev = "returned" => (ret \in 0..(Len(tracks) - 1) /\ ret # index))

\* C27 witness: the loop returned after a draw of the current index had been
\* rejected.
C27_Witness ==
    /\ ev = "returned" /\ pre.arg = 1
    /\ Len(tracks) > 1 /\ ret # index
====
